---- MODULE Spec2Model ----
(***************************************************************************)
(* The calendar event store of the assistant API and the mutation protocol *)
(* built on it: events.create (idempotency key lookup, overlap rejection), *)
(* events.update (NotFound, bounds defaulting, exclusion of the updated    *)
(* row by its bounds) and events.delete.                                   *)
(*                                                                         *)
(* Times are instants: every handler normalises its datetimes to UTC       *)
(* before it stores or compares them, and aware datetimes compare by       *)
(* instant, so an instant is an integer number of time units.              *)
(***************************************************************************)
EXTENDS Integers, FiniteSets, Sequences, TLC

VARIABLES
    store,      \* the Event table: a set of rows [id, start, end, key]
    nextId,     \* the ids issued so far are 1..nextId-1 (uuid4 never repeats)
    last,       \* the request just served, until its response is delivered: arguments, result, table before it
    returned,   \* for each idempotency key, the ids that successful creates carrying it returned
    inflight,   \* per worker thread: the create request it is in the middle of
    call,       \* the last evaluation of a pure helper: [fn, args, result]
    fs,         \* the frame of the find_slots call in progress: arguments, cursor, slots so far
    memory,     \* the Memory table: a set of rows [key, value, valid_from, valid_to, ttl_expires_at, updated_at]
    now,        \* datetime.now(tz=TZ_UTC), in minutes
    sessions,   \* the SkillSession table: a set of rows [id, skill_id, event_id, scheduled_start, duration_min]
    skills      \* the Skill table: a set of rows [id, cadence_per_week, session_length_min]

vars == <<store, nextId, last, returned, inflight, call, fs, memory, now, sessions, skills>>

----------------------------------------------------------------------------
(* Bounds of the model *)

\* instants are 0..MaxTime
MaxTime == 2
\* at most MaxEvents rows are ever inserted
MaxEvents == 2
\* the arguments of the pure helpers range over 0..MaxArg
MaxArg == 3

Times == 0 .. MaxTime
Args == 0 .. MaxArg

----------------------------------------------------------------------------
(* Values *)

\* Python None for an optional datetime of EventUpdate
NoTime == -1
\* an id that is falsy in Python (a missing "id", None, "")
NoId == 0
\* Python None for the optional idempotency_key
NoKey == "<None>"
\* the idempotency keys a request can carry: the empty string and a non-empty one
Keys == {"", "k1"}
\* the worker threads that serve requests
Procs == {"t1", "t2"}

\* the ids a request can name: the falsy one, the issued ones, and one never issued
RequestIds == 0 .. (MaxEvents + 1)

\* a row of the Event table (the fields the protocol reads or writes)
Event(id, start, end, key) == [id |-> id, start |-> start, end |-> end, key |-> key]

Max2(a, b) == IF a > b THEN a ELSE b
Min2(a, b) == IF a < b THEN a ELSE b

----------------------------------------------------------------------------
(* Helpers of the handlers *)

\* faulty variant of overlaps: closed intervals, so touching intervals overlap
overlaps_inclusive(a_start, a_end, b_start, b_end) ==
    Max2(a_start, b_start) <= Min2(a_end, b_end)

\* def overlaps(a_start, a_end, b_start, b_end): return max(a_start, b_start) < min(a_end, b_end)
overlaps(a_start, a_end, b_start, b_end) ==
    Max2(a_start, b_start) < Min2(a_end, b_end)

\* faulty variant of list_busy: only the rows that start inside the window
list_busy_started(st, start, end) ==
    {[start |-> e.start, end |-> e.end] : e \in {r \in st : r.start >= start /\ r.start < end}}

\* select(Event).where(Event.start < end, Event.end > start), projected to BusyBlock(start, end)
list_busy(st, start, end) ==
    {[start |-> e.start, end |-> e.end] : e \in {r \in st : r.start < end /\ r.end > start}}

\* `if payload.idempotency_key:` -- None and the empty string are both falsy
key_given(key) == key # NoKey /\ key # ""

\* faulty variant of find_by_key: the lookup ignores the key
find_by_key_any(st, key) == st

\* select(Event).where(Event.idempotency_key == key): the rows .first() can return
find_by_key(st, key) == {e \in st : e.key = key}

\* faulty variant of session_get: falls back to the whole table when the id is unknown
session_get_any(st, id) ==
    IF {e \in st : e.id = id} = {} THEN st ELSE {e \in st : e.id = id}

\* session.get(Event, id): the row with that primary key, if any
session_get(st, id) == {e \in st : e.id = id}

\* faulty variant of resolve_bound: a bound that is not supplied is reset
resolve_bound_reset(supplied, existing) ==
    IF supplied # NoTime THEN supplied ELSE 0

\* new_start = payload.start (normalised) if payload.start else ev.start
resolve_bound(supplied, existing) ==
    IF supplied # NoTime THEN supplied ELSE existing

\* faulty variant of same_bounds: the updated row is not skipped
same_bounds_never(b, ev) == FALSE

\* `if b.start == ev.start and b.end == ev.end: continue`
same_bounds(b, ev) == b.start = ev.start /\ b.end = ev.end

\* the outcome of a request: its status, the table after it, the id it returns
Outcome(status, st, ret) == [status |-> status, store |-> st, ret |-> ret]

----------------------------------------------------------------------------
(* The handlers, as functions of the table *)

\* events.create with fresh id nid: the set of outcomes (.first() may return any matching row)
events_create(st, nid, start, end, key) ==
    IF key_given(key) /\ find_by_key(st, key) # {}
    THEN {Outcome("ok", st, ex.id) : ex \in find_by_key(st, key)}
    ELSE IF \E b \in list_busy(st, start, end) : overlaps(start, end, b.start, b.end)
         THEN {Outcome("Conflict", st, NoId)}
         ELSE {Outcome("ok", st \cup {Event(nid, start, end, key)}, nid)}

\* events.update: start and end are NoTime when the request does not supply them
events_update(st, id, start, end) ==
    IF session_get(st, id) = {}
    THEN Outcome("NotFound", st, NoId)
    ELSE LET ev == CHOOSE e \in session_get(st, id) : TRUE
             new_start == resolve_bound(start, ev.start)
             new_end == resolve_bound(end, ev.end)
         IN IF \E b \in list_busy(st, new_start, new_end) :
                   /\ ~same_bounds(b, ev)
                   /\ overlaps(new_start, new_end, b.start, b.end)
            THEN Outcome("Conflict", st, NoId)
            ELSE Outcome("ok",
                         (st \ {ev}) \cup {Event(ev.id, new_start, new_end, ev.key)},
                         ev.id)

\* faulty variant of events_delete: an unknown id is an error
events_delete_strict(st, id) ==
    IF id = NoId
    THEN Outcome("BadRequest", st, NoId)
    ELSE IF session_get(st, id) = {}
         THEN Outcome("NotFound", st, NoId)
         ELSE Outcome("ok", st \ session_get(st, id), NoId)

\* events.delete: 400 when the id is missing or falsy, otherwise ok whether or not the row exists
events_delete(st, id) ==
    IF id = NoId
    THEN Outcome("BadRequest", st, NoId)
    ELSE Outcome("ok", st \ session_get(st, id), NoId)

----------------------------------------------------------------------------
(* State machine: requests served one at a time *)

Request(op, id, start, end, key, out, pre) ==
    [op |-> op, id |-> id, start |-> start, end |-> end, key |-> key,
     status |-> out.status, ret |-> out.ret, pre |-> pre]

\* a worker thread that serves no create request
Idle == [pc |-> "idle", start |-> NoTime, end |-> NoTime, key |-> NoKey]
NoCall == [fn |-> "none", args |-> <<>>, result |-> FALSE]

\* no find_slots call is in progress
NoFrame ==
    [pc |-> "idle", ws |-> NoTime, we |-> NoTime, dur |-> 0, round |-> 0, buffer |-> 0,
     busy |-> <<>>, t |-> NoTime, raw |-> NoTime, candidate_start |-> NoTime, slots |-> <<>>]

\* no response is pending
NoRequest == Request("none", NoId, NoTime, NoTime, NoKey, Outcome("ok", {}, NoId), {})

Init ==
    /\ store = {}
    /\ nextId = 1
    /\ last = NoRequest
    /\ returned = [k \in Keys |-> {}]
    /\ inflight = [p \in Procs |-> Idle]
    /\ call = NoCall
    /\ fs = NoFrame
    /\ memory = {}
    /\ now = 0
    /\ sessions = {}
    /\ skills = {}

\* the bookkeeping of the ids returned per key
Returned(key, out) ==
    IF key \in Keys /\ out.status = "ok"
    THEN [returned EXCEPT ![key] = @ \cup {out.ret}]
    ELSE returned

\* POST /events.create, served atomically
Create(start, end, key) ==
    /\ last = NoRequest
    /\ \A p \in Procs : inflight[p].pc = "idle"
    /\ \E out \in events_create(store, nextId, start, end, key) :
          /\ out.store # store => nextId <= MaxEvents
          /\ store' = out.store
          /\ nextId' = IF out.store # store THEN nextId + 1 ELSE nextId
          /\ last' = Request("create", NoId, start, end, key, out, store)
          /\ returned' = Returned(key, out)
    /\ UNCHANGED <<inflight, call, fs, memory, now, sessions, skills>>

\* POST /events.update, served atomically
Update(id, start, end) ==
    /\ last = NoRequest
    /\ LET out == events_update(store, id, start, end)
       IN /\ store' = out.store
          /\ last' = Request("update", id, start, end, NoKey, out, store)
    /\ UNCHANGED <<nextId, returned, inflight, call, fs, memory, now, sessions, skills>>

\* POST /events.delete, served atomically
Delete(id) ==
    /\ last = NoRequest
    /\ LET out == events_delete(store, id)
       IN /\ store' = out.store
          /\ last' = Request("delete", id, NoTime, NoTime, NoKey, out, store)
    /\ UNCHANGED <<nextId, returned, inflight, call, fs, memory, now, sessions, skills>>

\* the response of the request just served reaches the client
Respond ==
    /\ last # NoRequest
    /\ last' = NoRequest
    /\ UNCHANGED <<store, nextId, returned, inflight, call, fs, memory, now, sessions, skills>>

CreateAny == \E s \in Times, e \in Times, k \in Keys \cup {NoKey} : Create(s, e, k)
UpdateAny == \E id \in RequestIds, s \in Times \cup {NoTime}, e \in Times \cup {NoTime} : Update(id, s, e)
DeleteAny == \E id \in RequestIds : Delete(id)

Next == CreateAny \/ UpdateAny \/ DeleteAny \/ Respond

Spec == Init /\ [][Next]_vars

\* only create requests, one at a time
NextCreates == CreateAny \/ Respond

SpecCreates == Init /\ [][NextCreates]_vars

\* a create request whose bounds satisfy start < end
CreateProper ==
    \E s \in Times, e \in Times, k \in Keys \cup {NoKey} : s < e /\ Create(s, e, k)

\* an update request whose bounds, once resolved against the stored row, satisfy start < end
UpdateProper ==
    \E id \in RequestIds, s \in Times \cup {NoTime}, e \in Times \cup {NoTime} :
        /\ (s # NoTime /\ e # NoTime) => s < e
        /\ \A ev \in session_get(store, id) :
              resolve_bound(s, ev.start) < resolve_bound(e, ev.end)
        /\ Update(id, s, e)

\* requests served one at a time, all with start < end
NextProper == CreateProper \/ UpdateProper \/ DeleteAny \/ Respond

SpecProper == Init /\ [][NextProper]_vars

----------------------------------------------------------------------------
(* State machine: create requests served by concurrent worker threads.     *)
(* Each request has its own Session and the handler takes no lock, so the  *)
(* two queries and the commit of events.create are separate steps that the *)
(* steps of other requests can come between.                               *)

InFlight(pc, start, end, key) == [pc |-> pc, start |-> start, end |-> end, key |-> key]

\* the requests that have not yet inserted their row
Pending == {p \in Procs : inflight[p].pc # "idle"}

\* first query of events.create: the idempotency lookup, answered at once when a row matches
CreateLookup(p, start, end, key) ==
    /\ last = NoRequest
    /\ inflight[p].pc = "idle"
    /\ nextId + Cardinality(Pending) <= MaxEvents
    /\ IF key_given(key) /\ find_by_key(store, key) # {}
       THEN /\ \E ex \in find_by_key(store, key) :
                  /\ last' = Request("create", NoId, start, end, key,
                                     Outcome("ok", store, ex.id), store)
                  /\ returned' = Returned(key, Outcome("ok", store, ex.id))
            /\ UNCHANGED inflight
       ELSE /\ inflight' = [inflight EXCEPT ![p] = InFlight("check", start, end, key)]
            /\ UNCHANGED <<last, returned>>
    /\ UNCHANGED <<store, nextId, call, fs, memory, now, sessions, skills>>

\* second query of events.create: list_busy and the overlap loop
CreateCheck(p) ==
    /\ last = NoRequest
    /\ inflight[p].pc = "check"
    /\ LET r == inflight[p]
       IN IF \E b \in list_busy(store, r.start, r.end) : overlaps(r.start, r.end, b.start, b.end)
          THEN /\ last' = Request("create", NoId, r.start, r.end, r.key,
                                  Outcome("Conflict", store, NoId), store)
               /\ inflight' = [inflight EXCEPT ![p] = Idle]
          ELSE /\ inflight' = [inflight EXCEPT ![p] = InFlight("insert", r.start, r.end, r.key)]
               /\ UNCHANGED last
    /\ UNCHANGED <<store, nextId, returned, call, fs, memory, now, sessions, skills>>

\* session.add(ev); session.commit() of events.create
CreateInsert(p) ==
    /\ last = NoRequest
    /\ inflight[p].pc = "insert"
    /\ LET r == inflight[p]
           out == Outcome("ok", store \cup {Event(nextId, r.start, r.end, r.key)}, nextId)
       IN /\ store' = out.store
          /\ nextId' = nextId + 1
          /\ last' = Request("create", NoId, r.start, r.end, r.key, out, store)
          /\ returned' = Returned(r.key, out)
    /\ inflight' = [inflight EXCEPT ![p] = Idle]
    /\ UNCHANGED <<call, fs, memory, now, sessions, skills>>

CreateLookupAny ==
    \E p \in Procs, s \in Times, e \in Times, k \in Keys \cup {NoKey} : CreateLookup(p, s, e, k)
CreateCheckAny == \E p \in Procs : CreateCheck(p)
CreateInsertAny == \E p \in Procs : CreateInsert(p)

NextConcurrent ==
    \/ CreateLookupAny
    \/ CreateCheckAny
    \/ CreateInsertAny
    \/ UpdateAny
    \/ DeleteAny
    \/ Respond

SpecConcurrent == Init /\ [][NextConcurrent]_vars

----------------------------------------------------------------------------
(* Evaluation of the pure helper overlaps on bounded arguments *)

CallOverlaps ==
    \E a_start \in Args, a_end \in Args, b_start \in Args, b_end \in Args :
        /\ call' = [fn |-> "overlaps",
                    args |-> <<a_start, a_end, b_start, b_end>>,
                    result |-> overlaps(a_start, a_end, b_start, b_end)]
        /\ UNCHANGED <<store, nextId, last, returned, inflight, fs, memory, now, sessions, skills>>

NextOverlaps == CallOverlaps

SpecOverlaps == Init /\ [][NextOverlaps]_vars

----------------------------------------------------------------------------
(* Evaluation of the fetch filter on one row and one window *)

\* within_window of build_week.py: ev_start < win_end and ev_end > win_start
within_window(ev_start, ev_end, win_start, win_end) ==
    ev_start < win_end /\ ev_end > win_start

\* the fetch of create and update over a table that holds the single row
\* [ev_start, ev_end), and the overlap check the handler runs on the same bounds
CallFetch ==
    \E ev_start \in Args, ev_end \in Args, start \in Args, end \in Args :
        /\ call' = [fn |-> "list_busy",
                    args |-> <<ev_start, ev_end, start, end>>,
                    result |-> [fetched |-> list_busy({Event(1, ev_start, ev_end, NoKey)},
                                                      start, end) # {},
                                overlap |-> overlaps(start, end, ev_start, ev_end)]]
        /\ UNCHANGED <<store, nextId, last, returned, inflight, fs, memory, now, sessions, skills>>

\* within_window on the same arguments
CallWithinWindow ==
    \E ev_start \in Args, ev_end \in Args, win_start \in Args, win_end \in Args :
        /\ call' = [fn |-> "within_window",
                    args |-> <<ev_start, ev_end, win_start, win_end>>,
                    result |-> [fetched |-> within_window(ev_start, ev_end, win_start, win_end),
                                overlap |-> overlaps(win_start, win_end, ev_start, ev_end)]]
        /\ UNCHANGED <<store, nextId, last, returned, inflight, fs, memory, now, sessions, skills>>

NextFilter == CallFetch \/ CallWithinWindow

SpecFilter == Init /\ [][NextFilter]_vars

----------------------------------------------------------------------------
(* find_slots: the forward sweep over the busy blocks of a window.         *)
(* Here an instant is a number of seconds since midnight UTC, so that the  *)
(* minute of the hour and the part below the minute (seconds and           *)
(* microseconds, both counted in seconds) are what the code reads.         *)

\* the rows a table holds when find_slots is called: at most MaxBusy of SlotRows
MaxBusy == 2

\* timedelta(minutes=n), in seconds
Minutes(n) == n * 60
\* the instant h:m:s
At(h, m, s) == (h * 60 + m) * 60 + s
\* dt.minute
minute(dt) == (dt \div 60) % 60
\* dt.second (with dt.microsecond)
second(dt) == dt % 60
\* dt.replace(second=0, microsecond=0)
replace_second0(dt) == dt - second(dt)

\* faulty variant of round_up: always moves to the following boundary
round_up_next(dt, minutes) ==
    replace_second0(dt - (Minutes(minute(dt) % minutes) + second(dt)) + Minutes(minutes))

\* faulty variant of round_up: rounds down
round_up_floor(dt, minutes) ==
    replace_second0(dt - (Minutes(minute(dt) % minutes) + second(dt)))

\* _round_up(dt, minutes)
round_up(dt, minutes) ==
    LET discard == Minutes(minute(dt) % minutes) + second(dt)
    IN IF discard = 0
       THEN replace_second0(dt)
       ELSE replace_second0(dt - discard + Minutes(minutes))

\* BusyBlock(start, end)
BusyBlock(start, end) == [start |-> start, end |-> end]

\* sorted(blocks, key=lambda b: b.start): the sort is stable, so blocks with the
\* same start keep the order in which the query returned them, which is any order
sorted_by_start(blocks) ==
    {q \in [1 .. Cardinality(blocks) -> blocks] :
        /\ \A i \in DOMAIN q, j \in DOMAIN q : i # j => q[i] # q[j]
        /\ \A i \in DOMAIN q, j \in DOMAIN q : i < j => q[i].start <= q[j].start}

\* faulty variant of loop_continues: the candidate may end after the window
loop_continues_start(f) == f.t < f.we

\* `while t + dur <= we`
loop_continues(f) == f.t + Minutes(f.dur) <= f.we

\* faulty variant of blockers: the buffer is not added around the busy blocks
blockers_unbuffered(f) ==
    {i \in DOMAIN f.busy :
        overlaps(f.t, f.t + Minutes(f.dur), f.busy[i].start, f.busy[i].end)}

\* the indexes of the busy blocks whose inflated span the candidate [t, t + dur) overlaps
blockers(f) ==
    {i \in DOMAIN f.busy :
        overlaps(f.t, f.t + Minutes(f.dur),
                 f.busy[i].start - Minutes(f.buffer), f.busy[i].end + Minutes(f.buffer))}

\* faulty variant of find_slots_start: the first cursor is the boundary after the window start
find_slots_start_next(busy, ws, we, duration_min, round_to_min, buffer_min) ==
    [pc |-> "loop", ws |-> ws, we |-> we, dur |-> duration_min, round |-> round_to_min,
     buffer |-> buffer_min, busy |-> busy, t |-> round_up_next(ws, round_to_min), raw |-> ws,
     candidate_start |-> NoTime, slots |-> <<>>]

\* find_slots up to the loop: busy is the sorted fetch, t = _round_up(ws, round_to_min)
find_slots_start(busy, ws, we, duration_min, round_to_min, buffer_min) ==
    [pc |-> "loop", ws |-> ws, we |-> we, dur |-> duration_min, round |-> round_to_min,
     buffer |-> buffer_min, busy |-> busy, t |-> round_up(ws, round_to_min), raw |-> ws,
     candidate_start |-> NoTime, slots |-> <<>>]

\* one test of the while condition and, when it holds, one iteration of the loop:
\* the first blocking block in list order moves the cursor past its inflated end,
\* otherwise the candidate is appended and the cursor moves past it and the buffer;
\* raw is the cursor before it is rounded
find_slots_step(f) ==
    IF ~loop_continues(f)
    THEN [f EXCEPT !.pc = "done"]
    ELSE IF blockers(f) # {}
         THEN LET b == f.busy[CHOOSE i \in blockers(f) : \A j \in blockers(f) : i <= j]
                  raw == Max2(f.t, b.end + Minutes(f.buffer))
              IN [f EXCEPT !.t = round_up(raw, f.round), !.raw = raw, !.candidate_start = f.t]
         ELSE LET candidate_end == f.t + Minutes(f.dur)
                  raw == candidate_end + Minutes(f.buffer)
              IN [f EXCEPT !.slots = Append(@, BusyBlock(f.t, candidate_end)),
                           !.t = round_up(raw, f.round), !.raw = raw,
                           !.candidate_start = f.t]

\* the slots a call returns, from frame f on
RECURSIVE find_slots_from(_)
find_slots_from(f) ==
    IF f.pc = "done" THEN f.slots ELSE find_slots_from(find_slots_step(f))

\* duration_min: Query(..., ge=5)
SlotDurations == {5, 30}
\* round_to_min: Query(30, ge=5)
RoundTos == {5, 30, 45}
\* buffer_min: Query(5, ge=0)
Buffers == {0, 15, 120}
\* window_start, window_end
WindowStarts == {At(8, 0, 0), At(8, 0, 30), At(8, 50, 0)}
WindowEnds == {At(8, 20, 0), At(12, 0, 0)}

\* rows a table can hold: proper rows that do not overlap one another, and
\* zero-length and inverted rows, which no create or update rejects
SlotRows ==
    {Event(1, At(9, 0, 0), At(10, 0, 0), NoKey),
     Event(2, At(9, 0, 0), At(9, 0, 0), NoKey),
     Event(3, At(9, 0, 0), At(8, 50, 0), NoKey),
     Event(4, At(10, 0, 0), At(10, 30, 30), NoKey),
     Event(5, At(7, 30, 0), At(8, 0, 0), NoKey),
     Event(6, At(11, 45, 0), At(12, 30, 0), NoKey)}

InitSlots ==
    /\ store \in {st \in SUBSET SlotRows : Cardinality(st) <= MaxBusy}
    /\ nextId = Cardinality(SlotRows) + 1
    /\ last = NoRequest
    /\ returned = [k \in Keys |-> {}]
    /\ inflight = [p \in Procs |-> Idle]
    /\ call = NoCall
    /\ fs = NoFrame
    /\ memory = {}
    /\ now = 0
    /\ sessions = {}
    /\ skills = {}

\* GET /availability.find_slots: the fetch, the sort and the first cursor
FindSlotsStart ==
    /\ fs.pc = "idle"
    /\ \E ws \in WindowStarts, we \in WindowEnds, duration_min \in SlotDurations,
          round_to_min \in RoundTos, buffer_min \in Buffers :
          \E busy \in sorted_by_start(list_busy(store, ws, we)) :
              fs' = find_slots_start(busy, ws, we, duration_min, round_to_min, buffer_min)
    /\ UNCHANGED <<store, nextId, last, returned, inflight, call, memory, now, sessions, skills>>

\* the loop of find_slots, one iteration at a time
FindSlotsStep ==
    /\ fs.pc = "loop"
    /\ fs' = find_slots_step(fs)
    /\ UNCHANGED <<store, nextId, last, returned, inflight, call, memory, now, sessions, skills>>

NextSlots == FindSlotsStart \/ FindSlotsStep

\* the handler runs to its end once it has started
SpecSlots == InitSlots /\ [][NextSlots]_vars /\ WF_vars(FindSlotsStep)

\* _list_busy as freebusy returns it: one BusyBlock per fetched row, so a block
\* comes as many times as there are fetched rows with its bounds
freebusy(st, start, end) ==
    [b \in list_busy(st, start, end) |->
        Cardinality({e \in st : e.start < end /\ e.end > start
                                /\ e.start = b.start /\ e.end = b.end})]

\* the window bounds freebusy is called with
FreeBusyBounds == WindowStarts \cup WindowEnds \cup {At(9, 30, 0), At(10, 0, 0)}

\* GET /availability.freebusy with timezone-aware bounds
FreeBusy ==
    /\ \E start \in FreeBusyBounds, end \in FreeBusyBounds :
          call' = [fn |-> "freebusy", args |-> <<start, end>>,
                   result |-> freebusy(store, start, end)]
    /\ UNCHANGED <<store, nextId, last, returned, inflight, fs, memory, now, sessions, skills>>

\* the fetch of events_create and events_update: _list_busy over the requested bounds
ConflictFetch ==
    /\ \E start \in FreeBusyBounds, end \in FreeBusyBounds :
          call' = [fn |-> "list_busy", args |-> <<start, end>>,
                   result |-> list_busy(store, start, end)]
    /\ UNCHANGED <<store, nextId, last, returned, inflight, fs, memory, now, sessions, skills>>

\* events_list of calendar_api.py: each bound is optional (NoTime when absent);
\* the rows with end >= start and start <= end, ordered by start
events_list(st, start, end) ==
    sorted_by_start({e \in st : /\ start # NoTime => e.end >= start
                                /\ end # NoTime => e.start <= end})

\* MAX_LIST_SPAN_HOURS of src/app.py
MAX_LIST_SPAN_HOURS == 24

\* events_list of src/app.py: 400 when the window is longer than
\* MAX_LIST_SPAN_HOURS, else the first `limit` rows with start < end-of-window and
\* end > start-of-window, ordered by start
events_list_app(st, start, end, limit) ==
    IF end - start > Minutes(MAX_LIST_SPAN_HOURS * 60)
    THEN {[status |-> "BadRequest", rows |-> <<>>]}
    ELSE {[status |-> "ok", rows |-> SubSeq(q, 1, Min2(limit, Len(q)))] :
             q \in sorted_by_start({e \in st : e.start < end /\ e.end > start})}

\* limit: Query(500, ge=1, le=2000)
Limits == {1, 500}

\* GET /events.list (calendar_api.py) with timezone-aware bounds
EventsList ==
    /\ \E start \in FreeBusyBounds \cup {NoTime}, end \in FreeBusyBounds \cup {NoTime} :
          \E rows \in events_list(store, start, end) :
              call' = [fn |-> "events_list", args |-> <<start, end>>, result |-> rows]
    /\ UNCHANGED <<store, nextId, last, returned, inflight, fs, memory, now, sessions, skills>>

\* GET /events.list (src/app.py)
EventsListApp ==
    /\ \E start \in FreeBusyBounds, end \in FreeBusyBounds, limit \in Limits :
          \E out \in events_list_app(store, start, end, limit) :
              call' = [fn |-> "events_list_app", args |-> <<start, end>>, result |-> out]
    /\ UNCHANGED <<store, nextId, last, returned, inflight, fs, memory, now, sessions, skills>>

NextQueries == FreeBusy \/ ConflictFetch \/ EventsList \/ EventsListApp

SpecQueries == InitSlots /\ [][NextQueries]_vars

----------------------------------------------------------------------------
(* The handlers at the HTTP boundary: a timestamp arrives as a wall-clock   *)
(* time with or without a UTC offset, and each handler normalises it.       *)

\* a datetime as parsed from the request: tz is "none" when the text has no offset
DateTime(wall, tz) == [wall |-> wall, tz |-> tz]

\* dt.utcoffset() of an aware datetime
utcoffset(dt) == IF dt.tz = "+01:00" THEN Minutes(60) ELSE 0

\* dt.tzinfo is None
is_naive(dt) == dt.tz = "none"

\* dt.astimezone(TZ_UTC) of an aware datetime
astimezone(dt) == dt.wall - utcoffset(dt)

\* the offsets of Europe/London (GMT, BST); which one applies depends on the date
LondonOffsets == {0, Minutes(60)}

\* utc(dt) of src/app.py: a naive datetime is taken as Europe/London wall-clock time
utc(dt, london) ==
    IF ~is_naive(dt) THEN astimezone(dt) ELSE dt.wall - london

\* the timestamps a request carries
Walls == {At(8, 0, 0), At(10, 0, 0), At(12, 0, 0)}
DateTimes == {DateTime(w, tz) : w \in Walls, tz \in {"Z", "+01:00", "none"}}

\* what a served request leaves in `call`: the handler, its arguments as
\* received, the response and the table before the request
Served(fn, args, out, pre) ==
    [fn |-> fn, args |-> args,
     result |-> [status |-> out.status, ret |-> out.ret, pre |-> pre]]

\* faulty variant of freebusy_request: the rows reported are removed from the table
freebusy_request_consuming(st, start, end) ==
    IF is_naive(start) \/ is_naive(end)
    THEN Outcome("InvalidInput", st, <<>>)
    ELSE Outcome("ok",
                 {e \in st : ~(e.start < astimezone(end) /\ e.end > astimezone(start))},
                 freebusy(st, astimezone(start), astimezone(end)))

\* freebusy of calendar_api.py: 400 when a bound has no offset, else the busy blocks
freebusy_request(st, start, end) ==
    IF is_naive(start) \/ is_naive(end)
    THEN Outcome("InvalidInput", st, <<>>)
    ELSE Outcome("ok", st, freebusy(st, astimezone(start), astimezone(end)))

\* freebusy of src/app.py: no check, the bounds go through utc()
freebusy_app(st, start, end, london) ==
    Outcome("ok", st, freebusy(st, utc(start, london), utc(end, london)))

\* find_slots of calendar_api.py, the whole call: 400 when a bound has no
\* offset, else the slots of the sweep, for each order the fetch can come in
find_slots_request(st, duration_min, window_start, window_end, round_to_min, buffer_min) ==
    IF is_naive(window_start) \/ is_naive(window_end)
    THEN {Outcome("InvalidInput", st, <<>>)}
    ELSE LET ws == astimezone(window_start)
             we == astimezone(window_end)
         IN {Outcome("ok", st,
                     find_slots_from(find_slots_start(busy, ws, we, duration_min,
                                                      round_to_min, buffer_min))) :
                busy \in sorted_by_start(list_busy(st, ws, we))}

\* events_create of src/app.py: start, end = utc(payload.start), utc(payload.end)
events_create_app(st, nid, start, end, key, london) ==
    events_create(st, nid, utc(start, london), utc(end, london), key)

\* events_update of src/app.py: utc(payload.start) if payload.start else ev.start
events_update_app(st, id, start, end, london) ==
    events_update(st, id,
                  IF start.wall = NoTime THEN NoTime ELSE utc(start, london),
                  IF end.wall = NoTime THEN NoTime ELSE utc(end, london))

\* GET /availability.freebusy (calendar_api.py)
FreeBusyRequest ==
    /\ call.fn = "none"
    /\ \E start \in DateTimes, end \in DateTimes :
          LET out == freebusy_request(store, start, end)
          IN /\ store' = out.store
             /\ call' = Served("freebusy", <<start, end>>, out, store)
    /\ UNCHANGED <<nextId, last, returned, inflight, fs, memory, now, sessions, skills>>

\* GET /availability.freebusy (src/app.py)
FreeBusyAppRequest ==
    /\ call.fn = "none"
    /\ \E start \in DateTimes, end \in DateTimes, london \in LondonOffsets :
          LET out == freebusy_app(store, start, end, london)
          IN /\ store' = out.store
             /\ call' = Served("freebusy_app", <<start, end>>, out, store)
    /\ UNCHANGED <<nextId, last, returned, inflight, fs, memory, now, sessions, skills>>

\* GET /availability.find_slots, served in one step
FindSlotsRequest ==
    /\ call.fn = "none"
    /\ \E window_start \in DateTimes, window_end \in DateTimes,
          duration_min \in SlotDurations, round_to_min \in RoundTos, buffer_min \in Buffers :
          \E out \in find_slots_request(store, duration_min, window_start, window_end,
                                        round_to_min, buffer_min) :
              /\ store' = out.store
              /\ call' = Served("find_slots", <<window_start, window_end>>, out, store)
    /\ UNCHANGED <<nextId, last, returned, inflight, fs, memory, now, sessions, skills>>

\* POST /events.create (src/app.py) with the timestamps as received
CreateRequest ==
    /\ call.fn = "none"
    /\ \E start \in DateTimes, end \in DateTimes, london \in LondonOffsets :
          \E out \in events_create_app(store, nextId, start, end, NoKey, london) :
              /\ store' = out.store
              /\ nextId' = IF out.store # store THEN nextId + 1 ELSE nextId
              /\ call' = Served("events_create", <<start, end>>, out, store)
    /\ UNCHANGED <<last, returned, inflight, fs, memory, now, sessions, skills>>

\* POST /events.update (src/app.py) with the timestamps as received
UpdateRequest ==
    /\ call.fn = "none"
    /\ \E id \in 1 .. Cardinality(SlotRows),
          start \in DateTimes \cup {DateTime(NoTime, "none")},
          end \in DateTimes \cup {DateTime(NoTime, "none")}, london \in LondonOffsets :
          LET out == events_update_app(store, id, start, end, london)
          IN /\ store' = out.store
             /\ call' = Served("events_update", <<start, end>>, out, store)
    /\ UNCHANGED <<nextId, last, returned, inflight, fs, memory, now, sessions, skills>>

NextBoundary ==
    \/ FreeBusyRequest
    \/ FreeBusyAppRequest
    \/ FindSlotsRequest
    \/ CreateRequest
    \/ UpdateRequest

\* one request served at the boundary, over any table
SpecBoundary == InitSlots /\ [][NextBoundary]_vars

----------------------------------------------------------------------------
(* The memory store: one row per key, with a value dict, an optional        *)
(* validity interval and an optional expiry. Time is the clock `now`, in    *)
(* minutes.                                                                 *)

\* the clock runs from 0 to MaxNow
MaxNow == 2

\* the keys of the Memory table, as sequences of characters
MemKeys == {<<"a", "b">>}
\* prefix of memory.list: None, the empty string, a matching and a non-matching prefix
Prefixes == {<<"None">>, <<>>, <<"a">>, <<"b">>}
\* payload.value: dicts over two fields
Dicts == UNION {[d -> {1, 2}] : d \in SUBSET {"x", "y"}}
\* payload.valid_from, payload.valid_to
ValidTimes == {NoTime, 1}
\* payload.ttl_min
TtlMins == {NoTime, 0, 1}

\* Memory(key, value_json, valid_from, valid_to, ttl_expires_at, updated_at)
Memory(key, value, valid_from, valid_to, ttl_expires_at, updated_at) ==
    [key |-> key, value |-> value, valid_from |-> valid_from, valid_to |-> valid_to,
     ttl_expires_at |-> ttl_expires_at, updated_at |-> updated_at]

\* {**current_value, **payload.value}
merged(current_value, value) ==
    [f \in DOMAIN current_value \cup DOMAIN value |->
        IF f \in DOMAIN value THEN value[f] ELSE current_value[f]]

\* `a or b` on optional datetimes: None is the only falsy one
or_else(a, b) == IF a # NoTime THEN a ELSE b

\* faulty variant of is_active: a row expires only after its expiry time
is_active_late(record, t) ==
    /\ ~(record.ttl_expires_at # NoTime /\ record.ttl_expires_at < t)
    /\ ~(record.valid_from # NoTime /\ record.valid_from > t)
    /\ ~(record.valid_to # NoTime /\ record.valid_to < t)

\* _is_active(record), with now = t
is_active(record, t) ==
    /\ ~(record.ttl_expires_at # NoTime /\ record.ttl_expires_at <= t)
    /\ ~(record.valid_from # NoTime /\ record.valid_from > t)
    /\ ~(record.valid_to # NoTime /\ record.valid_to < t)

\* session.get(Memory, key)
memory_row(mem, key) == {r \in mem : r.key = key}

\* memory.get: 404 when the row is missing or not active
memory_get(mem, key, t) ==
    IF memory_row(mem, key) = {} \/ \E r \in memory_row(mem, key) : ~is_active(r, t)
    THEN Outcome("NotFound", mem, <<>>)
    ELSE Outcome("ok", mem, CHOOSE r \in memory_row(mem, key) : TRUE)

\* Memory.key.like(prefix + "%")
like_prefix(key, prefix) ==
    /\ Len(prefix) <= Len(key)
    /\ SubSeq(key, 1, Len(prefix)) = prefix

\* memory.list: the active rows, all of them when prefix is None or empty
memory_list(mem, prefix, t) ==
    Outcome("ok", mem,
            {r \in mem : /\ (prefix # <<"None">> /\ prefix # <<>>) => like_prefix(r.key, prefix)
                         /\ is_active(r, t)})

\* memory.set: 400 for ttl_min <= 0; an existing row is merged and keeps every
\* field the request leaves out, a new row takes the payload
memory_set(mem, key, value, valid_from, valid_to, ttl_min, t) ==
    IF ttl_min # NoTime /\ ttl_min <= 0
    THEN Outcome("BadRequest", mem, <<>>)
    ELSE LET ttl_expires_at == IF ttl_min # NoTime THEN t + ttl_min ELSE NoTime
             record ==
                 IF memory_row(mem, key) # {}
                 THEN LET old == CHOOSE r \in memory_row(mem, key) : TRUE
                      IN Memory(key, merged(old.value, value),
                                or_else(valid_from, old.valid_from),
                                or_else(valid_to, old.valid_to),
                                or_else(ttl_expires_at, old.ttl_expires_at), t)
                 ELSE Memory(key, value, valid_from, valid_to, ttl_expires_at, t)
         IN Outcome("ok", (mem \ memory_row(mem, key)) \cup {record}, record)

\* memory.delete: 404 when the row is missing
memory_delete(mem, key) ==
    IF memory_row(mem, key) = {}
    THEN Outcome("NotFound", mem, <<>>)
    ELSE Outcome("ok", mem \ memory_row(mem, key), <<>>)

\* what a memory request leaves in `call`: the arguments, the response and the clock
MemoryServed(fn, args, out) ==
    [fn |-> fn, args |-> args,
     result |-> [status |-> out.status, ret |-> out.ret, at |-> now]]

MemoryGet ==
    /\ \E key \in MemKeys :
          LET out == memory_get(memory, key, now)
          IN /\ memory' = out.store
             /\ call' = MemoryServed("memory_get", <<key>>, out)
    /\ UNCHANGED <<store, nextId, last, returned, inflight, fs, now, sessions, skills>>

MemoryList ==
    /\ \E prefix \in Prefixes :
          LET out == memory_list(memory, prefix, now)
          IN /\ memory' = out.store
             /\ call' = MemoryServed("memory_list", <<prefix>>, out)
    /\ UNCHANGED <<store, nextId, last, returned, inflight, fs, now, sessions, skills>>

MemorySet ==
    /\ \E key \in MemKeys, value \in Dicts, valid_from \in ValidTimes,
          valid_to \in ValidTimes, ttl_min \in TtlMins :
          LET out == memory_set(memory, key, value, valid_from, valid_to, ttl_min, now)
          IN /\ memory' = out.store
             /\ call' = MemoryServed("memory_set",
                                     <<key, value, valid_from, valid_to, ttl_min>>, out)
    /\ UNCHANGED <<store, nextId, last, returned, inflight, fs, now, sessions, skills>>

MemoryDelete ==
    /\ \E key \in MemKeys :
          LET out == memory_delete(memory, key)
          IN /\ memory' = out.store
             /\ call' = MemoryServed("memory_delete", <<key>>, out)
    /\ UNCHANGED <<store, nextId, last, returned, inflight, fs, now, sessions, skills>>

\* time passes between two requests
Tick ==
    /\ now < MaxNow
    /\ now' = now + 1
    /\ call' = NoCall
    /\ UNCHANGED <<store, nextId, last, returned, inflight, fs, memory, sessions, skills>>

NextMemory == MemoryGet \/ MemoryList \/ MemorySet \/ MemoryDelete \/ Tick

SpecMemory == Init /\ [][NextMemory]_vars

----------------------------------------------------------------------------
(* Evaluation of the pure helper _round_up on bounded arguments; as in
   find_slots, a cursor that was rounded may be rounded again *)

MaxHour == 10

\* the times of day a cursor can stand at
RoundHours == {8, 9}
RoundMinutes == {0, 1, 29, 30, 44, 50, 59}
RoundSeconds == {0, 1, 59}
RoundInputs == {At(h, m, sec) : h \in RoundHours, m \in RoundMinutes, sec \in RoundSeconds}
\* round_to_min: Query(30, ge=5)
RoundBy == {5, 7, 30, 45, 60, 90}

CallRoundUp ==
    \E x \in RoundInputs \cup (IF call.fn = "round_up" THEN {call.result} ELSE {}),
       minutes \in RoundBy :
        /\ x < At(MaxHour + 1, 0, 0)
        /\ call' = [fn |-> "round_up", args |-> <<x, minutes>>, result |-> round_up(x, minutes)]
        /\ UNCHANGED <<store, nextId, last, returned, inflight, fs, memory, now, sessions, skills>>

NextRoundUp == CallRoundUp

SpecRoundUp == Init /\ [][NextRoundUp]_vars

-----------------------------------------------------------------------------
(* Skills: upsert and the weekly schedule (legacy_backup/api/skills_api.py).
   Times are minutes; an ISO week is named by its index, week w starting at
   minute w * 7 * 1440 UTC. Of a skill only the fields the schedule reads are
   kept. Skills are never deleted, so their ids are 1, 2, ... in order of
   creation; events and sessions draw their uuid from nextId. *)

MaxSkills == 2
MaxIds == 4

Day == 24 * 60
week_end_offset == 7 * Day
Weeks == {0}
TzOffsets == {0, 600, -600}
StartHours == {9, 19}
Gaps == {120}
Cadences == {1, 2}
\* skill_ids of a request: none (every skill), a stored skill, an id of no skill
SkillIdLists == {{}, {1}, {MaxSkills + 1}}
SessionLengths == {30}

Skill(id, cadence_per_week, session_length_min) ==
    [id |-> id, cadence_per_week |-> cadence_per_week, session_length_min |-> session_length_min]

SkillSession(id, skill_id, event_id, scheduled_start, duration_min) ==
    [id |-> id, skill_id |-> skill_id, event_id |-> event_id,
     scheduled_start |-> scheduled_start, duration_min |-> duration_min]

\* the Monday 00:00 of the ISO week
iso_week_start(week) == week * 7 * Day

\* skills.upsert: a payload id that names a stored skill updates it; otherwise
\* (no id, or an id of no skill) a new skill is stored under a generated id
skills_upsert(sk, id, cadence_per_week, session_length_min) ==
    IF id # NoId /\ \E s \in sk : s.id = id
    THEN {s \in sk : s.id # id} \cup {Skill(id, cadence_per_week, session_length_min)}
    ELSE sk \cup {Skill(Cardinality(sk) + 1, cadence_per_week, session_length_min)}

\* the loop of _schedule_slots with n iterations left, the pointer on day
\* day_pointer (minutes) at current_time (minutes since midnight)
RECURSIVE schedule_slots_from(_, _, _, _, _)
schedule_slots_from(n, day_pointer, current_time, start_hour, gap_minutes) ==
    IF n = 0 THEN <<>>
    ELSE LET slot_datetime == day_pointer + current_time
             current_dt == slot_datetime + gap_minutes
             date == (current_dt \div Day) * Day
             time == current_dt % Day
             late == (time \div 60) >= 20
         IN  <<slot_datetime>> \o
             schedule_slots_from(n - 1,
                                 IF late THEN date + Day ELSE date,
                                 IF late THEN start_hour * 60 ELSE time,
                                 start_hour, gap_minutes)

schedule_slots(week_start, cadence, start_hour, gap_minutes) ==
    schedule_slots_from(cadence, week_start, start_hour * 60, start_hour, gap_minutes)

\* the rows of a query over Skill, in the order of their ids
RECURSIVE skill_rows(_)
skill_rows(sk) ==
    IF sk = {} THEN <<>>
    ELSE LET s == CHOOSE x \in sk : \A y \in sk : x.id <= y.id
         IN  <<s>> \o skill_rows(sk \ {s})

\* the (skill, slot) pairs the two nested loops of skills_schedule_week visit
RECURSIVE planned(_, _, _, _)
planned(rows, week_start, start_hour, gap_minutes) ==
    IF rows = <<>> THEN <<>>
    ELSE LET skill == Head(rows)
             slots == schedule_slots(week_start, skill.cadence_per_week, start_hour, gap_minutes)
         IN  [i \in 1 .. Len(slots) |-> [skill |-> skill, slot |-> slots[i]]]
             \o planned(Tail(rows), week_start, start_hour, gap_minutes)

\* the sessions the removal query of skills_schedule_week selects
existing_sessions(ss, week_start) ==
    {x \in ss : /\ x.scheduled_start >= week_start
                /\ x.scheduled_start < week_start + week_end_offset}

\* skills.schedule_week on tables (sk, st, ss) with next the next fresh id
skills_schedule_week(sk, st, ss, next, week, skill_ids, tz_offset_minutes, start_hour, gap_minutes) ==
    LET week_start == iso_week_start(week)
        selected == IF skill_ids # {} THEN {s \in sk : s.id \in skill_ids} ELSE sk
        removed == existing_sessions(ss, week_start)
        st1 == {e \in st : ~\E x \in removed : x.event_id = e.id}
        ss1 == ss \ removed
        plan == planned(skill_rows(selected), week_start, start_hour, gap_minutes)
        start_utc(i) == plan[i].slot - tz_offset_minutes
        events == {Event(next + i - 1, start_utc(i),
                         start_utc(i) + plan[i].skill.session_length_min, NoKey)
                      : i \in 1 .. Len(plan)}
        created == {SkillSession(next + i - 1, plan[i].skill.id, next + i - 1, start_utc(i),
                                 plan[i].skill.session_length_min)
                      : i \in 1 .. Len(plan)}
    IN  IF selected = {}
        THEN [status |-> "NotFound", store |-> st, sessions |-> ss, nextId |-> next, ret |-> {}]
        ELSE [status |-> "ok", store |-> st1 \cup events, sessions |-> ss1 \cup created,
              nextId |-> next + Len(plan), ret |-> {x.id : x \in created}]

SkillsUpsert ==
    \E id \in 0 .. (MaxSkills + 1), cadence \in Cadences, length \in SessionLengths :
        LET out == skills_upsert(skills, id, cadence, length)
        IN  /\ Cardinality(out) <= MaxSkills
            /\ skills' = out
            /\ call' = [fn |-> "skills_upsert", args |-> <<id, cadence, length>>,
                        result |-> [status |-> "ok", ret |-> {}]]
            /\ UNCHANGED <<store, nextId, last, returned, inflight, fs, memory, now, sessions>>

ScheduleWeek ==
    \E week \in Weeks, skill_ids \in SkillIdLists,
       tz \in TzOffsets, start_hour \in StartHours, gap \in Gaps :
        LET out == skills_schedule_week(skills, store, sessions, nextId,
                                        week, skill_ids, tz, start_hour, gap)
        IN  /\ out.nextId <= MaxIds + 1
            /\ store' = out.store
            /\ sessions' = out.sessions
            /\ nextId' = out.nextId
            /\ call' = [fn |-> "schedule_week",
                        args |-> <<week, skill_ids, tz, start_hour, gap>>,
                        result |-> [status |-> out.status, ret |-> out.ret]]
            /\ UNCHANGED <<last, returned, inflight, fs, memory, now, skills>>

NextSkills == SkillsUpsert \/ ScheduleWeek

SpecSkills == Init /\ [][NextSkills]_vars

-----------------------------------------------------------------------------
(* Vocabulary of the properties *)

\* the Overlap Predicate of the specification: max of starts < min of ends
OverlapPredicate(s1, e1, s2, e2) ==
    (IF s1 > s2 THEN s1 ELSE s2) < (IF e1 < e2 THEN e1 ELSE e2)

RowsOverlap(a, b) == OverlapPredicate(a.start, a.end, b.start, b.end)

Proper(r) == r.start < r.end

\* the bound an update request asks for, given the row before the update
Requested(supplied, existing) == IF supplied = NoTime THEN existing ELSE supplied

----------------------------------------------------------------------------
(* C1 *)

\* C1: after any sequence of create, update and delete requests served one at a
\* time from an empty table, no two distinct stored rows overlap under the
\* Overlap Predicate.
C1_NoStoredOverlap ==
    \A a \in store, b \in store : a.id # b.id => ~RowsOverlap(a, b)

\* two proper rows are stored and the second reached its bounds by an update
C1_Witness ==
    /\ last.op = "update"
    /\ last.status = "ok"
    /\ store # last.pre
    /\ \E a \in store, b \in store :
          a.id # b.id /\ Proper(a) /\ Proper(b) /\ a.end = b.start /\ b.id = last.id

----------------------------------------------------------------------------
(* C2 *)

\* a create request is an idempotent replay when it carries a key that a stored row has
IsReplay(r) == r.key # NoKey /\ \E e \in r.pre : e.key = r.key

\* C2: a create that is not an idempotent replay fails with Conflict and leaves
\* the table unchanged when a stored row overlaps the requested bounds, and
\* otherwise adds exactly one new row, with a fresh id and the requested bounds
\* (adjacent rows do not overlap).
C2_CreateSucceedsIffNoOverlap ==
    (last.op = "create" /\ ~IsReplay(last)) =>
        IF \E e \in last.pre : OverlapPredicate(last.start, last.end, e.start, e.end)
        THEN last.status = "Conflict" /\ store = last.pre
        ELSE /\ last.status = "ok"
             /\ \E new \in store :
                   /\ store = last.pre \cup {new}
                   /\ new.id = last.ret
                   /\ \A e \in last.pre : e.id # new.id
                   /\ new.start = last.start
                   /\ new.end = last.end
                   /\ new.key = last.key

\* a create adjacent to a stored proper row (it starts where the row ends) succeeded
C2_Witness ==
    /\ last.op = "create"
    /\ last.status = "ok"
    /\ last.start < last.end
    /\ \E e \in last.pre : Proper(e) /\ e.end = last.start
    /\ Cardinality(store) = Cardinality(last.pre) + 1

----------------------------------------------------------------------------
(* C3 *)

\* C3: in any sequence of create requests served one at a time, all creates that
\* carry the same idempotency key return the same id, and the table holds
\* exactly one row with that key.
C3_SameKeySameId ==
    \A k \in Keys :
        returned[k] # {} =>
            /\ Cardinality(returned[k]) = 1
            /\ Cardinality({e \in store : e.key = k}) = 1

----------------------------------------------------------------------------
(* C4 *)

\* C4: a create whose idempotency key matches a stored row returns that row and
\* leaves the whole table unchanged, with no overlap check, whatever the bounds
\* of the replayed request.
C4_ReplayReturnsStoredRow ==
    (last.op = "create" /\ IsReplay(last)) =>
        /\ last.status = "ok"
        /\ store = last.pre
        /\ \E e \in last.pre : e.key = last.key /\ e.id = last.ret

----------------------------------------------------------------------------
(* C5 *)

\* C5: overlaps(aStart, aEnd, bStart, bEnd) is true exactly when
\* max(aStart, bStart) < min(aEnd, bEnd), that is when each start lies before
\* each end: an interval that ends exactly when the other starts does not
\* overlap it, and an interval that starts before the other ends and ends after
\* it starts does.
C5_OverlapsHalfOpen ==
    call.fn = "overlaps" =>
        LET a_start == call.args[1]
            a_end == call.args[2]
            b_start == call.args[3]
            b_end == call.args[4]
        IN /\ call.result <=>
                 (a_start < a_end /\ a_start < b_end /\ b_start < a_end /\ b_start < b_end)
           /\ (a_end = b_start \/ b_end = a_start) => ~call.result
           /\ (a_start < a_end /\ b_start < b_end /\ a_start < b_end /\ a_end > b_start)
                 => call.result

\* overlaps was evaluated on a proper interval and the proper interval that starts at its end
C5_Witness ==
    /\ call.fn = "overlaps"
    /\ call.args[1] < call.args[2]
    /\ call.args[2] = call.args[3]
    /\ call.args[3] < call.args[4]
    /\ call.result = FALSE

----------------------------------------------------------------------------
(* C6 *)

\* C6: an update whose new bounds overlap the row's own bounds before the update,
\* and overlap no other stored row, succeeds and stores the new bounds.
C6_UpdateIgnoresItself ==
    last.op = "update" =>
        \A ev \in last.pre :
            ev.id = last.id =>
                LET new_start == Requested(last.start, ev.start)
                    new_end == Requested(last.end, ev.end)
                IN (/\ OverlapPredicate(new_start, new_end, ev.start, ev.end)
                    /\ \A b \in last.pre :
                          b.id # ev.id => ~OverlapPredicate(new_start, new_end, b.start, b.end))
                   => /\ last.status = "ok"
                      /\ \E e \in store :
                            e.id = ev.id /\ e.start = new_start /\ e.end = new_end

\* an update moved a row to new bounds that overlap its old ones, next to another row
C6_Witness ==
    /\ last.op = "update"
    /\ last.status = "ok"
    /\ Cardinality(last.pre) = 2
    /\ \E ev \in last.pre, e \in store :
          /\ ev.id = last.id
          /\ e.id = last.id
          /\ <<e.start, e.end>> # <<ev.start, ev.end>>
          /\ RowsOverlap(e, ev)

----------------------------------------------------------------------------
(* C7 *)

\* C7: an update fails with Conflict, leaving the table unchanged, whenever its
\* resolved new bounds overlap a stored row with another id, also when that row
\* has the same bounds as the updated row had before the update.
C7_UpdateConflictsWithOthers ==
    last.op = "update" =>
        \A ev \in last.pre :
            ev.id = last.id =>
                LET new_start == Requested(last.start, ev.start)
                    new_end == Requested(last.end, ev.end)
                IN (\E b \in last.pre :
                       b.id # ev.id /\ OverlapPredicate(new_start, new_end, b.start, b.end))
                   => last.status = "Conflict" /\ store = last.pre

----------------------------------------------------------------------------
(* C8 *)

\* C8: an update whose id resolves to no stored row fails with NotFound and
\* leaves the table unchanged.
C8_UpdateUnknownIdNotFound ==
    (last.op = "update" /\ \A e \in last.pre : e.id # last.id) =>
        last.status = "NotFound" /\ store = last.pre

\* an update named an id that no row of a non-empty table has
C8_Witness ==
    /\ last.op = "update"
    /\ last.pre # {}
    /\ \A e \in last.pre : e.id # last.id
    /\ last.status = "NotFound"

----------------------------------------------------------------------------
(* C9 *)

\* C9: after a successful update the row keeps its id and its idempotency key,
\* and a bound the request does not supply keeps its value.
C9_UpdateKeepsIdentity ==
    (last.op = "update" /\ last.status = "ok") =>
        /\ last.ret = last.id
        /\ \E old \in last.pre :
              /\ old.id = last.id
              /\ \A new \in store :
                    new.id = last.id =>
                        /\ new.key = old.key
                        /\ (last.start = NoTime => new.start = old.start)
                        /\ (last.end = NoTime => new.end = old.end)
        /\ Cardinality({e \in store : e.id = last.id}) = 1

\* an update supplied only a new end for a keyed row that does not start at 0
C9_Witness ==
    /\ last.op = "update"
    /\ last.status = "ok"
    /\ last.start = NoTime
    /\ last.end # NoTime
    /\ \E old \in last.pre, new \in store :
          /\ old.id = last.id
          /\ new.id = last.id
          /\ old.key = "k1"
          /\ old.start > 0
          /\ new.end # old.end

----------------------------------------------------------------------------
(* C10 *)

\* C10 as stated: delete never fails, for every request and every id value: no
\* row has the id and the table is unchanged, or exactly that row is removed;
\* deleting the id again changes nothing.
C10_DeleteNeverFails ==
    last.op = "delete" =>
        /\ last.status = "ok"
        /\ store = {e \in last.pre : e.id # last.id}
        /\ events_delete(store, last.id).store = store

\* C10 amended: a delete that names an id (one that is not missing or empty)
\* never fails: no row has the id and the table is unchanged, or exactly that
\* row is removed, and deleting the id again changes nothing; a delete whose id
\* is missing or empty is rejected and leaves the table unchanged.
C10_DeleteWithIdNeverFails ==
    last.op = "delete" =>
        IF last.id = NoId
        THEN last.status = "BadRequest" /\ store = last.pre
        ELSE /\ last.status = "ok"
             /\ store = {e \in last.pre : e.id # last.id}
             /\ events_delete(store, last.id).status = "ok"
             /\ events_delete(store, last.id).store = store

\* a delete named the id of no row of a non-empty table, and answered ok
C10_Witness ==
    /\ last.op = "delete"
    /\ last.id # NoId
    /\ last.pre # {}
    /\ \A e \in last.pre : e.id # last.id
    /\ last.status = "ok"
    /\ store = last.pre

----------------------------------------------------------------------------
(* C11 *)

\* C11: every stored row has start < end in every reachable state: neither a
\* create with start >= end nor an update whose resolved bounds have
\* start >= end leaves a zero-length or inverted row in the table.
C11_StoredRowsProper ==
    \A e \in store : e.start < e.end


\* the half-open interval [h1:m1, h2:m2) as a slot
Slot(h1, m1, h2, m2) == BusyBlock(At(h1, m1, 0), At(h2, m2, 0))

\* dt lies on a boundary of `minutes`: minute-of-hour a multiple, nothing below the minute
OnBoundary(dt, minutes) == minute(dt) % minutes = 0 /\ second(dt) = 0

\* the slots of a finished find_slots call
ReturnedSlots == {fs.slots[i] : i \in DOMAIN fs.slots}

\* the worked example: one stored interval [09:00,10:00), window [08:00,12:00),
\* duration 30, roundTo 30, buffer 0, and the call has returned
WorkedExample ==
    /\ fs.pc = "done"
    /\ \E e \in store : store = {e} /\ e.start = At(9, 0, 0) /\ e.end = At(10, 0, 0)
    /\ fs.ws = At(8, 0, 0) /\ fs.we = At(12, 0, 0)
    /\ fs.dur = 30 /\ fs.round = 30 /\ fs.buffer = 0

(* C12 *)
\* C12: no slot find_slots returns overlaps, under the Overlap Predicate, the
\* span [b.start - buffer, b.end + buffer) of a stored interval b that overlaps
\* the query window; with buffer 0 no returned slot overlaps any stored interval.
C12_SlotsAvoidBusy ==
    fs.pc = "done" =>
        \A s \in ReturnedSlots :
            /\ \A b \in store :
                  OverlapPredicate(b.start, b.end, fs.ws, fs.we)
                      => ~OverlapPredicate(s.start, s.end,
                                           b.start - Minutes(fs.buffer),
                                           b.end + Minutes(fs.buffer))
            /\ fs.buffer = 0
                  => \A b \in store : ~OverlapPredicate(s.start, s.end, b.start, b.end)

\* a returned slot ends exactly where the inflated span of a stored interval begins
C12_Witness ==
    /\ fs.pc = "done"
    /\ fs.buffer > 0
    /\ \E s \in ReturnedSlots, b \in store :
          /\ OverlapPredicate(b.start, b.end, fs.ws, fs.we)
          /\ s.end = b.start - Minutes(fs.buffer)

(* C13 *)
\* C13: every returned slot lasts exactly duration_min minutes, starts at or
\* after the window start and ends at or before the window end.
C13_SlotsFitWindow ==
    fs.pc = "done" =>
        \A s \in ReturnedSlots :
            /\ s.end - s.start = Minutes(fs.dur)
            /\ s.start >= fs.ws
            /\ s.end <= fs.we

\* a returned slot ends exactly at the window end
C13_Witness ==
    /\ fs.pc = "done"
    /\ \E s \in ReturnedSlots : s.end = fs.we /\ s.start > fs.ws

(* C14 *)
\* C14: in the worked example find_slots returns, in this order, [08:00,08:30),
\* [08:30,09:00), [10:00,10:30), [10:30,11:00), [11:00,11:30), [11:30,12:00).
C14_WorkedExampleSlots ==
    WorkedExample =>
        fs.slots = <<Slot(8, 0, 8, 30), Slot(8, 30, 9, 0), Slot(10, 0, 10, 30),
                     Slot(10, 30, 11, 0), Slot(11, 0, 11, 30), Slot(11, 30, 12, 0)>>

\* the worked example has been served, and a candidate was rejected on the way
C14_Witness ==
    /\ WorkedExample
    /\ \E i \in DOMAIN fs.slots : i > 1 /\ fs.slots[i].start > fs.slots[i - 1].end

(* C15 *)
\* C15 as stated: in the worked example find_slots returns exactly 5 slots, none
\* of which overlaps the stored interval.
C15_WorkedExampleFiveSlots ==
    WorkedExample =>
        /\ Len(fs.slots) = 5
        /\ \A s \in ReturnedSlots, b \in store :
              ~OverlapPredicate(s.start, s.end, b.start, b.end)

\* C15 amended: in the worked example find_slots returns exactly 6 slots, none of
\* which overlaps the stored interval.
C15_WorkedExampleSixSlots ==
    WorkedExample =>
        /\ Len(fs.slots) = 6
        /\ \A s \in ReturnedSlots, b \in store :
              ~OverlapPredicate(s.start, s.end, b.start, b.end)

\* the worked example has been served with slots on both sides of the stored interval
C15_Witness ==
    /\ WorkedExample
    /\ \E s \in ReturnedSlots : s.end <= At(9, 0, 0)
    /\ \E s \in ReturnedSlots : s.start >= At(10, 0, 0)

(* C16 *)
\* C16: _round_up is a ceiling: a time that already lies on a round_to_min
\* boundary is returned unchanged, so a window that starts on a boundary has its
\* first cursor exactly at the window start.
C16_RoundUpKeepsBoundary ==
    fs.pc # "idle" =>
        /\ OnBoundary(fs.raw, fs.round) => fs.t = fs.raw
        /\ (fs.candidate_start = NoTime /\ fs.pc = "loop" /\ OnBoundary(fs.ws, fs.round))
              => fs.t = fs.ws

\* the window starts at 08:00, round_to_min is 30 and the first cursor is 08:00
C16_Witness ==
    /\ fs.pc = "loop"
    /\ fs.candidate_start = NoTime
    /\ fs.ws = At(8, 0, 0)
    /\ fs.round = 30
    /\ fs.t = At(8, 0, 0)

(* C17 *)
\* C17: for every accepted round_to_min the cursor after each rounding, and so
\* the start of every returned slot, has a minute-of-hour that is a multiple of
\* round_to_min.
C17_CursorOnMultiple ==
    fs.pc # "idle" =>
        /\ minute(fs.t) % fs.round = 0
        /\ \A s \in ReturnedSlots : minute(s.start) % fs.round = 0

(* C18 *)
\* C18: find_slots terminates for every window, store content (rows with
\* start >= end included) and accepted arguments: every iteration of the loop
\* leaves the cursor strictly later than it was, and a call in its loop
\* eventually returns.
C18_FindSlotsTerminates ==
    /\ [][(fs.pc = "loop" /\ fs'.pc = "loop") => fs'.t > fs.t]_vars
    /\ (fs.pc = "loop") ~> (fs.pc = "done")

\* a call over a table holding a row with start >= end has rejected a candidate,
\* accepted another and returned
C18_Witness ==
    /\ fs.pc = "done"
    /\ \E i \in DOMAIN fs.busy : fs.busy[i].start >= fs.busy[i].end
    /\ fs.slots # <<>>
    /\ fs.slots[1].start > fs.ws + Minutes(fs.round)

(* C19 *)
\* C19: find_slots is deterministic: whatever the order in which the store
\* returns the matching rows, a call with the same arguments on the same table
\* returns the same sequence of slots.
C19_SlotsOrderIndependent ==
    fs.pc = "done" =>
        \A busy \in sorted_by_start(list_busy(store, fs.ws, fs.we)) :
            find_slots_from(find_slots_start(busy, fs.ws, fs.we, fs.dur, fs.round, fs.buffer))
                = fs.slots

(* C20 *)
\* C20: freebusy returns exactly one Busy Block for each stored interval that
\* overlaps the window under the Overlap Predicate and none for any other stored
\* interval, for every window it accepts.
C20_FreeBusyIsOverlap ==
    call.fn = "freebusy" =>
        LET start == call.args[1]
            end == call.args[2]
            matching(b) == {e \in store : /\ OverlapPredicate(e.start, e.end, start, end)
                                          /\ e.start = b.start /\ e.end = b.end}
        IN /\ \A e \in store :
                 OverlapPredicate(e.start, e.end, start, end)
                     => BusyBlock(e.start, e.end) \in DOMAIN call.result
           /\ \A b \in DOMAIN call.result : call.result[b] = Cardinality(matching(b))

\* the read-only operations, as they appear in `call`
QueryOps == {"freebusy", "freebusy_app", "find_slots"}

\* the timestamp carries no UTC offset
LacksOffset(dt) == dt.tz = "none"

\* the request supplies this timestamp
Supplied(dt) == dt.wall # NoTime

(* C21 *)
\* C21: freebusy and find_slots are read-only: after either call, whether it
\* returned a result or failed, the table holds the same rows with the same
\* fields as before the call.
C21_QueriesReadOnly ==
    call.fn \in QueryOps => store = call.result.pre

\* freebusy has reported a busy block of a table that holds rows
C21_Witness ==
    /\ call.fn = "freebusy"
    /\ call.result.status = "ok"
    /\ DOMAIN call.result.ret # {}
    /\ store # {}

(* C22 *)
\* C22: freebusy and find_slots fail with InvalidInput whenever a window bound
\* has no UTC offset; no default zone is assumed and no result is computed.
C22_NaiveWindowRejected ==
    (call.fn \in QueryOps /\ (LacksOffset(call.args[1]) \/ LacksOffset(call.args[2])))
        => call.result.status = "InvalidInput"

(* C23 *)
\* C23: create and update reject a start or end timestamp that has no UTC
\* offset with InvalidInput and leave the table unchanged, rather than assuming
\* a default zone.
C23_NaiveTimestampRejected ==
    (/\ call.fn \in {"events_create", "events_update"}
     /\ \E i \in 1 .. 2 : Supplied(call.args[i]) /\ LacksOffset(call.args[i]))
        => /\ call.result.status = "InvalidInput"
           /\ store = call.result.pre

(* C24 *)
\* C24: freebusy and find_slots fail with InvalidInput when the window is
\* inverted (window end at or before window start) instead of returning a result.
C24_InvertedWindowRejected ==
    (/\ call.fn \in QueryOps
     /\ ~LacksOffset(call.args[1]) /\ ~LacksOffset(call.args[2])
     /\ astimezone(call.args[2]) <= astimezone(call.args[1]))
        => call.result.status = "InvalidInput"

\* the stored row e is in the answer that `call` holds
Selected(e) ==
    IF call.fn = "freebusy" THEN BusyBlock(e.start, e.end) \in DOMAIN call.result
    ELSE IF call.fn = "list_busy" THEN BusyBlock(e.start, e.end) \in call.result
    ELSE IF call.fn = "events_list_app"
         THEN \E i \in DOMAIN call.result.rows : call.result.rows[i].id = e.id
    ELSE \E i \in DOMAIN call.result : call.result[i].id = e.id

(* C25 *)
\* C25: every window query applies the half-open rule: a stored event that
\* ends exactly at the query start, or starts exactly at the query end, is not
\* selected by freebusy, by the conflict fetch of create and update, or by
\* events.list.
C25_AdjacentNotSelected ==
    call.fn \in {"freebusy", "list_busy", "events_list", "events_list_app"} =>
        \A e \in store :
            (e.end = call.args[1] \/ e.start = call.args[2]) => ~Selected(e)

(* C26 *)
\* C26: when two create requests whose bounds overlap each other are served
\* concurrently, with their fetch, overlap check and insert interleaved, over a
\* table in which neither conflicts, at most one of them is persisted: the
\* stored intervals stay pairwise non-overlapping.
C26_RacingCreatesExclusive ==
    \A a \in store, b \in store :
        (a.id # b.id /\ Proper(a) /\ Proper(b))
            => ~OverlapPredicate(a.start, a.end, b.start, b.end)

(* C27 *)
\* C27: when two create requests with the same idempotency key are served
\* concurrently, with their key lookup and insert interleaved, the table ends
\* with exactly one row carrying that key and both calls return its id.
C27_RacingCreatesOneRowPerKey ==
    \A k \in Keys :
        k # "" =>
            /\ Cardinality({e \in store : e.key = k}) <= 1
            /\ (last.op = "create" /\ last.key = k /\ last.status = "ok")
                  => \E e \in store : e.key = k /\ e.id = last.ret

\* round_to_min divides the hour
DividesHour(minutes) == 60 % minutes = 0

\* the whole minutes from the window start to the window end
WindowMinutes == {Minutes(k) : k \in (fs.ws \div 60) .. (fs.we \div 60)}

\* the candidate [t, t + duration) overlaps the inflated span of a fetched block
Blocked(t) ==
    \E i \in DOMAIN fs.busy :
        OverlapPredicate(t, t + Minutes(fs.dur),
                         fs.busy[i].start - Minutes(fs.buffer),
                         fs.busy[i].end + Minutes(fs.buffer))

\* the boundary-aligned times at which a candidate fits the window and is not blocked
Feasible ==
    {t \in WindowMinutes :
        /\ t >= fs.ws
        /\ t + Minutes(fs.dur) <= fs.we
        /\ OnBoundary(t, fs.round)
        /\ ~Blocked(t)}

\* the last iteration of the loop rejected its candidate
LastRejected ==
    /\ fs.candidate_start # NoTime
    /\ fs.slots = <<>> \/ fs.slots[Len(fs.slots)].start # fs.candidate_start

(* C28 *)
\* C28: when round_to_min divides 60 find_slots skips no feasible candidate:
\* the first returned slot starts at the earliest feasible time, every aligned
\* candidate a jump after a rejection passes over is itself blocked, and an
\* empty result means that no feasible time exists.
C28_NoFeasibleCandidateSkipped ==
    (fs.pc # "idle" /\ DividesHour(fs.round)) =>
        /\ LastRejected =>
              \A t \in WindowMinutes :
                  (fs.candidate_start < t /\ t < fs.t /\ OnBoundary(t, fs.round))
                      => Blocked(t)
        /\ fs.pc = "done" =>
              IF Feasible = {}
              THEN fs.slots = <<>>
              ELSE /\ fs.slots # <<>>
                   /\ fs.slots[1].start \in Feasible
                   /\ \A t \in Feasible : fs.slots[1].start <= t

\* a call has returned slots after a jump that passed over a blocked aligned candidate
C28_Witness ==
    /\ fs.pc = "done"
    /\ DividesHour(fs.round)
    /\ fs.slots # <<>>
    /\ \E t \in WindowMinutes :
          /\ fs.ws < t
          /\ t < fs.slots[1].start
          /\ OnBoundary(t, fs.round)
          /\ Blocked(t)

(* C29 *)
\* C29: the returned slots are strictly ascending by start and each starts at
\* or after the end of the previous one plus buffer_min, so no two returned
\* slots overlap.
C29_SlotsAscending ==
    fs.pc # "idle" =>
        /\ \A i \in DOMAIN fs.slots :
              i > 1 => /\ fs.slots[i].start > fs.slots[i - 1].start
                       /\ fs.slots[i].start >= fs.slots[i - 1].end + Minutes(fs.buffer)
        /\ \A i \in DOMAIN fs.slots, j \in DOMAIN fs.slots :
              i # j => ~OverlapPredicate(fs.slots[i].start, fs.slots[i].end,
                                         fs.slots[j].start, fs.slots[j].end)

\* two consecutive returned slots are exactly buffer_min apart
C29_Witness ==
    /\ fs.pc = "done"
    /\ fs.buffer > 0
    /\ Len(fs.slots) >= 2
    /\ fs.slots[2].start = fs.slots[1].end + Minutes(fs.buffer)

(* C30 *)
\* C30: with buffer_min > 0 no returned slot lies within buffer_min of any
\* stored interval, including one that lies entirely outside the query window.
C30_SlotsClearOfEveryRow ==
    (fs.pc = "done" /\ fs.buffer > 0) =>
        \A s \in ReturnedSlots, b \in store :
            Proper(b) =>
                ~OverlapPredicate(s.start, s.end,
                                  b.start - Minutes(fs.buffer), b.end + Minutes(fs.buffer))

(* C31 *)
\* C31: for every stored interval with start < end and every window with
\* start < end, the fetch filter (interval.start < window end and interval.end >
\* window start) selects the interval exactly when overlaps(window, interval) is
\* true, so the overlap check that follows the fetch never disagrees with it.
C31_FilterIsOverlap ==
    (/\ call.fn \in {"list_busy", "within_window"}
     /\ call.args[1] < call.args[2]
     /\ call.args[3] < call.args[4])
        => /\ call.result.fetched <=>
                 OverlapPredicate(call.args[3], call.args[4], call.args[1], call.args[2])
           /\ call.result.fetched <=> call.result.overlap

\* the fetch selected a row that starts before a proper window and ends inside it
C31_Witness ==
    /\ call.fn = "list_busy"
    /\ call.args[1] < call.args[3]
    /\ call.args[3] < call.args[2]
    /\ call.args[2] < call.args[4]
    /\ call.result.fetched
    /\ call.result.overlap

(* C32 *)
\* C32: when requests are served one at a time and every requested interval has
\* start < end, no two stored rows have equal bounds, so the exclusion by
\* matching bounds in update skips exactly the updated row: the update fails
\* with Conflict exactly when a row with another id overlaps the new bounds.
C32_BoundsExclusionIsIdExclusion ==
    /\ \A a \in store, b \in store :
          a.id # b.id => ~(a.start = b.start /\ a.end = b.end)
    /\ last.op = "update" =>
          \A ev \in last.pre :
              ev.id = last.id =>
                  /\ \A b \in last.pre :
                        (b.start = ev.start /\ b.end = ev.end) => b.id = ev.id
                  /\ last.status = "Conflict" <=>
                        \E b \in last.pre :
                            /\ b.id # ev.id
                            /\ OverlapPredicate(Requested(last.start, ev.start),
                                                Requested(last.end, ev.end),
                                                b.start, b.end)

\* an update succeeded, next to another stored row, with new bounds that overlap
\* the updated row's own previous bounds
C32_Witness ==
    /\ last.op = "update"
    /\ last.status = "ok"
    /\ Cardinality(last.pre) = 2
    /\ \E ev \in last.pre :
          /\ ev.id = last.id
          /\ OverlapPredicate(Requested(last.start, ev.start), Requested(last.end, ev.end),
                              ev.start, ev.end)

(* C33 *)
\* C33: a successful update modifies only the row with the given id: the number
\* of rows is unchanged and every other row keeps its id, bounds and key; an
\* update that fails with NotFound or Conflict modifies nothing.
C33_UpdateFrame ==
    last.op = "update" =>
        IF last.status = "ok"
        THEN /\ Cardinality(store) = Cardinality(last.pre)
             /\ \A e \in last.pre : e.id # last.id => e \in store
             /\ \A e \in store : e.id # last.id => e \in last.pre
        ELSE /\ last.status \in {"NotFound", "Conflict"}
             /\ store = last.pre

\* an update changed one of two stored rows
C33_Witness ==
    /\ last.op = "update"
    /\ last.status = "ok"
    /\ Cardinality(last.pre) = 2
    /\ store # last.pre
    /\ \E e \in last.pre : e.id # last.id /\ e \in store

(* C34 *)
\* C34: deleting a row releases its idempotency key: once a create with key k
\* has returned an id and no stored row carries k any more, the next create with
\* key k is a new request: it fails with Conflict when its bounds overlap a
\* stored row, and otherwise stores one new row with key k whose id is none of
\* the ids returned for k before.
C34_DeleteReleasesKey ==
    [][\A k \in Keys :
          (/\ k # ""
           /\ returned[k] # {}
           /\ \A e \in store : e.key # k
           /\ last.op = "none"
           /\ last'.op = "create"
           /\ last'.key = k)
              => IF \E b \in store :
                        OverlapPredicate(last'.start, last'.end, b.start, b.end)
                 THEN last'.status = "Conflict" /\ store' = store
                 ELSE /\ last'.status = "ok"
                      /\ last'.ret \notin returned[k]
                      /\ \A e \in store : e.id # last'.ret
                      /\ store' = store \cup {Event(last'.ret, last'.start, last'.end, k)}
      ]_vars

\* a key has been used by two creates that returned different ids, and one row carries it
C34_Witness ==
    /\ last.op = "create"
    /\ last.key = "k1"
    /\ last.status = "ok"
    /\ Cardinality(returned["k1"]) = 2
    /\ Cardinality({e \in store : e.key = "k1"}) = 1
    /\ \E e \in store : e.key = "k1" /\ e.id = last.ret

\* the memory row r is inactive at time t
Inactive(r, t) ==
    \/ r.ttl_expires_at # NoTime /\ r.ttl_expires_at <= t
    \/ r.valid_from # NoTime /\ r.valid_from > t
    \/ r.valid_to # NoTime /\ r.valid_to < t

(* C35 *)
\* C35: after a memory.set without ttl_min, valid_from and valid_to has
\* succeeded, a memory.get of the same key that follows at once returns the row
\* with the fields just set, whatever the row of that key was before, a row
\* with an expired TTL included.
C35_SetThenGet ==
    [][(/\ call.fn = "memory_set"
        /\ call.result.status = "ok"
        /\ call.args[3] = NoTime /\ call.args[4] = NoTime /\ call.args[5] = NoTime
        /\ call'.fn = "memory_get"
        /\ call'.args[1] = call.args[1])
           => /\ call'.result.status = "ok"
              /\ \A f \in DOMAIN call.args[2] :
                    /\ f \in DOMAIN call'.result.ret.value
                    /\ call'.result.ret.value[f] = call.args[2][f]
      ]_vars

(* C36 *)
\* C36: memory.get and memory.list never return a row that is inactive at the
\* time of the call (expiry at or before now, valid_from after now, or
\* valid_to before now); memory.get answers Not found for such a row.
C36_InactiveNeverReturned ==
    /\ call.fn = "memory_get" =>
          /\ call.result.status = "ok" => ~Inactive(call.result.ret, call.result.at)
          /\ (\E r \in memory : r.key = call.args[1] /\ Inactive(r, call.result.at))
                => call.result.status = "NotFound"
    /\ call.fn = "memory_list" =>
          \A r \in call.result.ret : ~Inactive(r, call.result.at)

\* memory.get answered Not found for a stored row at the very minute it expires
C36_Witness ==
    /\ call.fn = "memory_get"
    /\ call.result.status = "NotFound"
    /\ \E r \in memory : r.key = call.args[1] /\ r.ttl_expires_at = call.result.at

(* C37 *)
\* C37: skills.schedule_week is idempotent per week: a second call with the
\* same week, skills and options, straight after a first one, leaves as many
\* skill sessions and skill events stored as the first call left, for every
\* tz_offset_minutes.
C37_ScheduleWeekIdempotent ==
    [][(/\ call.fn = "schedule_week"
        /\ call.result.status = "ok"
        /\ call'.fn = "schedule_week"
        /\ call'.args = call.args
        /\ skills' = skills)
           => /\ Cardinality(sessions') = Cardinality(sessions)
              /\ Cardinality(store') = Cardinality(store)
      ]_vars

(* C38 *)
\* C38: for every time x and every roundToMinutes >= 5, round_up(x,
\* roundToMinutes) is a time r with x <= r < x + roundToMinutes: rounding
\* never moves the cursor backwards and never skips a full rounding period.
C38_RoundUpWithinOnePeriod ==
    (call.fn = "round_up" /\ call.args[2] >= 5) =>
        /\ call.args[1] <= call.result
        /\ call.result < call.args[1] + Minutes(call.args[2])

\* a time one second past a boundary was moved forward by one second less
\* than a full period
C38_Witness ==
    /\ call.fn = "round_up"
    /\ second(call.args[1]) = 1
    /\ call.result = call.args[1] + Minutes(call.args[2]) - 1

(* C39 *)
\* C39: round_up is idempotent: for every time x and every roundToMinutes >= 5,
\* rounding round_up(x, roundToMinutes) again with the same roundToMinutes
\* returns it unchanged.
C39_RoundUpIdempotent ==
    [][(/\ call.fn = "round_up"
        /\ call'.fn = "round_up"
        /\ call'.args = <<call.result, call.args[2]>>)
           => call'.result = call.result
      ]_vars

====
